---- MODULE Spec2Model ----
(***************************************************************************)
(* A model of ktmpl's template engine: Parameter::new, Template::new,      *)
(* Template::process (process_yaml, maybe_base64_encode_secret, dump).     *)
(*                                                                         *)
(* Text is a sequence of one-character strings, so that the placeholder    *)
(* patterns and the Base64 encoding work on characters as the code does.   *)
(* An Option<T> is a sequence of length 0 (None) or 1 (Some).              *)
(***************************************************************************)
EXTENDS Integers, Sequences, FiniteSets

VARIABLES
    docs,             \* what YamlLoader::load_from_str gives for template_contents
    parameter_values, \* the ParameterValues handed to Template::new
    secrets,          \* the Option<HashSet<Secret>> handed to Template::new and
                      \* kept unchanged as Template.secrets
    pc,               \* the position of the run: "New" before Template::new,
                      \* "NoTemplate" after its error, "Loop" and "Encode"
                      \* inside the loop of process(), and "Processed",
                      \* "Failed" or "Panicked" at the end of process()
    objects,          \* Template.objects
    param_map,        \* Template.param_map
    i,                \* the index of the object the loop of process() is at
    secrets_encoded,  \* the counter of process()
    result            \* None, or Some(the Result the failed or finished run returned)

vars == <<docs, parameter_values, secrets, pc, objects, param_map, i,
          secrets_encoded, result>>

(***************************************************************************)
(* Text and bytes                                                          *)
(***************************************************************************)

\* The printable ASCII characters, code 32 to 126, in order (code 96, the
\* grave accent, is spelled GRAVE: it cannot be written in a string here).
Printable ==
    << " ", "!", "\"", "#", "$", "%", "&", "'", "(", ")", "*", "+", ",", "-", ".", "/",
       "0", "1", "2", "3", "4", "5", "6", "7", "8", "9", ":", ";", "<", "=", ">", "?",
       "@", "A", "B", "C", "D", "E", "F", "G", "H", "I", "J", "K", "L", "M", "N", "O",
       "P", "Q", "R", "S", "T", "U", "V", "W", "X", "Y", "Z", "[", "\\", "]", "^", "_",
       "GRAVE", "a", "b", "c", "d", "e", "f", "g", "h", "i", "j", "k", "l", "m", "n", "o",
       "p", "q", "r", "s", "t", "u", "v", "w", "x", "y", "z", "{", "|", "}", "~" >>

\* str::as_bytes on one character (ASCII).
Ord(c) ==
    IF c = "\n" THEN 10
    ELSE 31 + (CHOOSE k \in 1..Len(Printable) : Printable[k] = c)

Base64Alphabet ==
    << "A", "B", "C", "D", "E", "F", "G", "H", "I", "J", "K", "L", "M", "N", "O", "P",
       "Q", "R", "S", "T", "U", "V", "W", "X", "Y", "Z", "a", "b", "c", "d", "e", "f",
       "g", "h", "i", "j", "k", "l", "m", "n", "o", "p", "q", "r", "s", "t", "u", "v",
       "w", "x", "y", "z", "0", "1", "2", "3", "4", "5", "6", "7", "8", "9", "+", "/" >>

Sextet(n) == Base64Alphabet[n + 1]

RECURSIVE EncodeBytes(_)
EncodeBytes(bs) ==
    IF Len(bs) = 0 THEN << >>
    ELSE IF Len(bs) = 1 THEN
        << Sextet(bs[1] \div 4), Sextet((bs[1] % 4) * 16), "=", "=" >>
    ELSE IF Len(bs) = 2 THEN
        << Sextet(bs[1] \div 4), Sextet((bs[1] % 4) * 16 + bs[2] \div 16),
           Sextet((bs[2] % 16) * 4), "=" >>
    ELSE
        << Sextet(bs[1] \div 4), Sextet((bs[1] % 4) * 16 + bs[2] \div 16),
           Sextet((bs[2] % 16) * 4 + bs[3] \div 64), Sextet(bs[3] % 64) >>
        \o EncodeBytes(SubSeq(bs, 4, Len(bs)))

\* base64::encode(text.as_bytes()): standard alphabet, padded.
encode(text) == EncodeBytes([k \in 1..Len(text) |-> Ord(text[k])])


(***************************************************************************)
(* The document model (yaml-rust's Yaml).  An Integer carries its value as *)
(* canonical decimal text, so that a 64-bit value needs no 64-bit          *)
(* arithmetic; a Hash is a function from its keys to its values (the       *)
(* crate's Hash is a map ordered by key, so its keys fix the order).  A    *)
(* Yaml is the pair of its variant and what the variant carries.           *)
(***************************************************************************)
Null == <<"Null", << >> >>
BadValue == <<"BadValue", << >> >>
Boolean(b) == <<"Boolean", b>>
Integer(text) == <<"Integer", text>>
Real(text) == <<"Real", text>>
String(text) == <<"String", text>>
Array(seq) == <<"Array", seq>>
Hash(map) == <<"Hash", map>>

\* the variant of a Yaml, and what it carries
TypeOf(yaml) == yaml[1]
\* what a Yaml or a Result carries
Val(x) == x[2]

\* Result: Ok(value), or Err of a message and the values formatted into it
Ok(x) == <<"Ok", x>>
ErrWith(msg, args) == <<"Err", [msg |-> msg, args |-> args]>>
Err(msg) == ErrWith(msg, << >>)
IsOk(res) == res[1] = "Ok"

None == << >>
Some(x) == << x >>

\* Hash::get
Get(map, key) == IF key \in DOMAIN map THEN Some(map[key]) ELSE None

\* yaml["key"]: the value under a string key of a Hash, BadValue otherwise.
Index(yaml, key) ==
    IF TypeOf(yaml) = "Hash" /\ String(key) \in DOMAIN Val(yaml) THEN Val(yaml)[String(key)]
    ELSE BadValue

as_str(yaml) == IF TypeOf(yaml) = "String" THEN Some(Val(yaml)) ELSE None
as_bool(yaml) == IF TypeOf(yaml) = "Boolean" THEN Some(Val(yaml)) ELSE None
as_vec(yaml) == IF TypeOf(yaml) = "Array" THEN Some(Val(yaml)) ELSE None
unwrap_or(opt, default) == IF opt = None THEN default ELSE opt[1]

Digits == {"0", "1", "2", "3", "4", "5", "6", "7", "8", "9"}

IsDigits(text) == Len(text) >= 1 /\ \A k \in 1..Len(text) : text[k] \in Digits

HasSign(text) == Len(text) >= 1 /\ text[1] \in {"+", "-"}
Unsigned(text) == IF HasSign(text) THEN Tail(text) ELSE text

RECURSIVE StripZeros(_)
StripZeros(text) ==
    IF Len(text) > 1 /\ text[1] = "0" THEN StripZeros(Tail(text)) ELSE text

\* digit strings of equal length, compared as numbers
RECURSIVE DigitsLeq(_, _)
DigitsLeq(a, b) ==
    IF Len(a) = 0 THEN TRUE
    ELSE IF a[1] # b[1] THEN Ord(a[1]) < Ord(b[1])
    ELSE DigitsLeq(Tail(a), Tail(b))

I64Max == <<"9","2","2","3","3","7","2","0","3","6","8","5","4","7","7","5","8","0","7">>
I64MinMagnitude == <<"9","2","2","3","3","7","2","0","3","6","8","5","4","7","7","5","8","0","8">>

\* str::parse::<i64>: an optional sign, then decimal digits, within 64 bits.
ParsesI64(text) ==
    /\ IsDigits(Unsigned(text))
    /\ LET m == StripZeros(Unsigned(text))
           limit == IF HasSign(text) /\ text[1] = "-" THEN I64MinMagnitude ELSE I64Max
       IN  \/ Len(m) < Len(limit)
           \/ Len(m) = Len(limit) /\ DigitsLeq(m, limit)

\* the i64 it parses to, as canonical decimal text
I64Text(text) ==
    LET m == StripZeros(Unsigned(text))
    IN  IF HasSign(text) /\ text[1] = "-" /\ m # <<"0">> THEN <<"-">> \o m ELSE m

IsMantissa(text) ==
    \/ IsDigits(text)
    \/ \E d \in 1..Len(text) :
          /\ text[d] = "."
          /\ Len(text) >= 2
          /\ \A k \in 1..Len(text) : k # d => text[k] \in Digits

IsExponent(text) == IsDigits(Unsigned(text))

\* str::parse::<f64>: inf, NaN, or a decimal mantissa and an optional exponent,
\* after an optional sign.
ParsesF64(text) ==
    LET u == Unsigned(text)
    IN  \/ u \in {<<"i","n","f">>, <<"N","a","N">>}
        \/ IsMantissa(u)
        \/ \E e \in 2..Len(u) :
              /\ u[e] \in {"e", "E"}
              /\ IsMantissa(SubSeq(u, 1, e - 1))
              /\ IsExponent(SubSeq(u, e + 1, Len(u)))

\* Yaml::from_str, the document model's resolution of a plain scalar (its
\* 0x and 0o spellings of integers are left out: no text of the model starts
\* with them).
from_str(text) ==
    IF text \in {<<"~">>, <<"n","u","l","l">>} THEN Null
    ELSE IF text = <<"t","r","u","e">> THEN Boolean(TRUE)
    ELSE IF text = <<"f","a","l","s","e">> THEN Boolean(FALSE)
    ELSE IF ParsesI64(text) THEN Integer(I64Text(text))
    ELSE IF ParsesF64(text) THEN Real(text)
    ELSE String(text)

(***************************************************************************)
(* processor.rs                                                            *)
(***************************************************************************)

\* The ends e of the matches of a pattern at position s of text: "$", then
\* nopen - 1 times "(", then any characters but a line break, then nclose times
\* ")" ending at e.
MatchEnds(text, s, nopen, nclose) ==
    { e \in (s + nopen + nclose - 1)..Len(text) :
        /\ text[s] = "$"
        /\ \A k \in 1..(nopen - 1) : text[s + k] = "("
        /\ \A k \in 0..(nclose - 1) : text[e - k] = ")"
        /\ \A k \in (s + nopen)..(e - nclose) : text[k] # "\n" }

Max(S) == CHOOSE x \in S : \A y \in S : y <= x
Min(S) == CHOOSE x \in S : \A y \in S : x <= y

\* interpolate with the empty text, not ~, for a parameter without a value
interpolate_empty(key, whole, parameters) ==
    IF key \in DOMAIN parameters
    THEN unwrap_or(parameters[key].value, << >>)
    ELSE whole

\* the closure interpolate of process_string: key is capture 1, whole is capture 0
interpolate(key, whole, parameters) ==
    IF key \in DOMAIN parameters
    THEN unwrap_or(parameters[key].value, <<"~">>)
    ELSE whole

\* Regex::replace_all from position from on: the leftmost match, its greedy
\* (longest) end, the replacement, and on after the match.
RECURSIVE replace_all(_, _, _, _, _)
replace_all(text, from, nopen, nclose, parameters) ==
    LET starts == { s \in from..Len(text) : MatchEnds(text, s, nopen, nclose) # {} }
    IN  IF starts = {} THEN SubSeq(text, from, Len(text))
        ELSE LET s == Min(starts)
                 e == Max(MatchEnds(text, s, nopen, nclose))
                 key == SubSeq(text, s + nopen, e - nclose)
                 whole == SubSeq(text, s, e)
             IN  SubSeq(text, from, s - 1)
                 \o interpolate(key, whole, parameters)
                 \o replace_all(text, e + 1, nopen, nclose, parameters)

\* LITERAL_INTERPOLATION, \$\({2}(.*)\){2}
LITERAL_INTERPOLATION(text, parameters) == replace_all(text, 1, 3, 2, parameters)

\* STRING_INTERPOLATION, \$\((.*)\)
STRING_INTERPOLATION(text, parameters) == replace_all(text, 1, 2, 1, parameters)

\* process_string with the string pass only where the literal pass changed
\* nothing
process_string_exclusive(string, parameters) ==
    LET replacement == LITERAL_INTERPOLATION(string, parameters)
        final_replacement == STRING_INTERPOLATION(string, parameters)
    IN  IF replacement # string THEN Some(from_str(replacement))
        ELSE IF final_replacement = string THEN None
        ELSE Some(String(final_replacement))

\* process_string reading every changed text as a scalar
process_string_inferring(string, parameters) ==
    LET replacement == LITERAL_INTERPOLATION(string, parameters)
        final_replacement == STRING_INTERPOLATION(replacement, parameters)
    IN  IF final_replacement = string THEN None
        ELSE Some(from_str(final_replacement))

\* process_string: None, or Some(the node that replaces the string)
process_string(string, parameters) ==
    LET replacement == LITERAL_INTERPOLATION(string, parameters)
        contains_literal_replacement == replacement # string
        final_replacement == STRING_INTERPOLATION(replacement, parameters)
        contains_string_replacement == final_replacement # replacement
    IN  IF ~contains_literal_replacement /\ ~contains_string_replacement THEN None
        ELSE IF contains_literal_replacement /\ ~contains_string_replacement
             THEN Some(from_str(final_replacement))
        ELSE Some(String(final_replacement))

\* process_yaml: the node as the call leaves it (node) and the value it
\* returns (ret).  process_array and process_hash put a returned node in the
\* place of the child; a String is not changed in place, only returned.
RECURSIVE process_yaml(_, _)

\* the child replaced also when process_yaml returns no node for it
process_child_always(value, parameters) ==
    LET r == process_yaml(value, parameters)
    IN  IF r.ret # None THEN r.ret[1] ELSE Null

\* the match of process_array and process_hash on what process_yaml returns
process_child(value, parameters) ==
    LET r == process_yaml(value, parameters)
    IN  IF r.ret # None THEN r.ret[1] ELSE r.node

process_array(array, parameters) ==
    [node |-> Array([k \in 1..Len(array) |-> process_child(array[k], parameters)]),
     ret |-> None]

process_hash(hash, parameters) ==
    [node |-> Hash([key \in DOMAIN hash |-> process_child(hash[key], parameters)]),
     ret |-> None]

process_yaml(yaml, parameters) ==
    IF TypeOf(yaml) = "Array" THEN process_array(Val(yaml), parameters)
    ELSE IF TypeOf(yaml) = "Hash" THEN process_hash(Val(yaml), parameters)
    ELSE IF TypeOf(yaml) = "String"
         THEN [node |-> yaml, ret |-> process_string(Val(yaml), parameters)]
    ELSE [node |-> yaml, ret |-> None]


(***************************************************************************)
(* Texts of the program                                                    *)
(***************************************************************************)
t_objects == <<"o","b","j","e","c","t","s">>
t_parameters == <<"p","a","r","a","m","e","t","e","r","s">>
t_description == <<"d","e","s","c","r","i","p","t","i","o","n">>
t_displayName == <<"d","i","s","p","l","a","y","N","a","m","e">>
t_name == <<"n","a","m","e">>
t_parameterType == <<"p","a","r","a","m","e","t","e","r","T","y","p","e">>
t_required == <<"r","e","q","u","i","r","e","d">>
t_value == <<"v","a","l","u","e">>
t_kind == <<"k","i","n","d">>
t_Secret == <<"S","e","c","r","e","t">>
t_metadata == <<"m","e","t","a","d","a","t","a">>
t_namespace == <<"n","a","m","e","s","p","a","c","e">>
t_default == <<"d","e","f","a","u","l","t">>
t_data == <<"d","a","t","a">>
t_base64 == <<"b","a","s","e","6","4">>
t_bool == <<"b","o","o","l">>
t_int == <<"i","n","t">>
t_string == <<"s","t","r","i","n","g">>
t_true == <<"t","r","u","e">>
t_false == <<"f","a","l","s","e">>

(***************************************************************************)
(* parameter.rs                                                            *)
(***************************************************************************)
Plain(text) == [tag |-> "Plain", text |-> text]
Encoded(text) == [tag |-> "Encoded", text |-> text]

\* impl FromStr for ParameterType
ParameterType_from_str(s) ==
    IF s = t_base64 THEN Ok("Base64")
    ELSE IF s = t_bool THEN Ok("Bool")
    ELSE IF s = t_int THEN Ok("Int")
    ELSE IF s = t_string THEN Ok("String")
    ELSE Err("parameterType must be base64, bool, int, or string.")

\* maybe_base64_encode without its match on the tag of the value: a value
\* that is already encoded is encoded again
maybe_base64_encode_untagged(parameter_type, user_value) ==
    IF parameter_type = None \/ parameter_type[1] # "Base64" THEN user_value.text
    ELSE encode(user_value.text)

maybe_base64_encode(parameter_type, user_value) ==
    IF parameter_type = None \/ parameter_type[1] # "Base64" THEN user_value.text
    ELSE IF user_value.tag = "Plain" THEN encode(user_value.text)
    ELSE user_value.text

\* format!("{}", value) of the bool or i64 of an inline value
Display(yaml) == IF TypeOf(yaml) = "Boolean" THEN (IF Val(yaml) THEN t_true ELSE t_false) ELSE Val(yaml)

ExpectedType(parameter_type) ==
    IF parameter_type = None THEN "base64, bool, int, or string"
    ELSE IF parameter_type[1] = "Base64" THEN "base64"
    ELSE IF parameter_type[1] = "Bool" THEN "a bool"
    ELSE IF parameter_type[1] = "Int" THEN "an int"
    ELSE "a string"

\* Parameter::new, the parameterType of the declaration: a field that is
\* not a string counts as no field
parameter_type_of(yaml) ==
    LET field == as_str(Index(yaml, t_parameterType))
    IN  IF field = None THEN Ok(None)
        ELSE LET parsed == ParameterType_from_str(field[1])
             IN  IF IsOk(parsed) THEN Ok(Some(Val(parsed))) ELSE parsed

\* the required flag read under a wrong key: never set
required_of_unread(yaml) == unwrap_or(as_bool(Index(yaml, t_value)), FALSE)

\* Parameter::new, the required flag of the declaration
required_of(yaml) == unwrap_or(as_bool(Index(yaml, t_required)), FALSE)

\* Parameter::new, the value: the supplied one, else the inline one, else
\* none, which is an error of a required parameter
value_of(yaml, name, display_name, parameter_type, required, user_values) ==
    LET user_value == Get(user_values, name)
        inline == Index(yaml, t_value)
    IN  IF user_value # None
        THEN Ok(Some(maybe_base64_encode(parameter_type, user_value[1])))
        ELSE IF TypeOf(inline) \in {"Boolean", "Integer"} THEN Ok(Some(Display(inline)))
        ELSE IF TypeOf(inline) = "String" THEN Ok(Some(Val(inline)))
        ELSE IF required
        THEN ErrWith("Parameter {} required and must be {}",
                     << unwrap_or(display_name, name), ExpectedType(parameter_type) >>)
        ELSE Ok(None)

\* Parameter::new
Parameter_new(yaml, user_values) ==
    LET description == as_str(Index(yaml, t_description))
        display_name == as_str(Index(yaml, t_displayName))
        name == as_str(Index(yaml, t_name))
        parameter_type == parameter_type_of(yaml)
        required == required_of(yaml)
    IN  IF name = None THEN Err("Parameters must have a \"name\" field.")
        ELSE IF ~IsOk(parameter_type) THEN parameter_type
        ELSE LET value == value_of(yaml, name[1], display_name, Val(parameter_type),
                                   required, user_values)
             IN  IF ~IsOk(value) THEN value
                 ELSE Ok([description |-> description, display_name |-> display_name,
                          name |-> name[1], parameter_type |-> Val(parameter_type),
                          required |-> required, value |-> Val(value)])

(***************************************************************************)
(* template.rs                                                             *)
(***************************************************************************)
Insert(map, key, value) ==
    [k \in DOMAIN map \cup {key} |-> IF k = key THEN value ELSE map[k]]

\* the loop going on after a declaration that fails, without its parameter
RECURSIVE new_parameters_skipping(_, _, _, _)
new_parameters_skipping(parameter_specs, k, user_values, map) ==
    IF k > Len(parameter_specs) THEN Ok(map)
    ELSE LET parameter == Parameter_new(parameter_specs[k], user_values)
         IN  new_parameters_skipping(parameter_specs, k + 1, user_values,
                 IF IsOk(parameter) THEN Insert(map, Val(parameter).name, Val(parameter))
                 ELSE map)

\* the loop of Template::new over the parameter declarations, from the k-th
RECURSIVE new_parameters(_, _, _, _)
new_parameters(parameter_specs, k, user_values, map) ==
    IF k > Len(parameter_specs) THEN Ok(map)
    ELSE LET parameter == Parameter_new(parameter_specs[k], user_values)
         IN  IF ~IsOk(parameter) THEN parameter
             ELSE new_parameters(parameter_specs, k + 1, user_values,
                                 Insert(map, Val(parameter).name, Val(parameter)))

\* Template::new: Ok([objects, param_map, secrets]) or the error
Template_new(loaded, user_values, secret_set) ==
    IF ~IsOk(loaded) THEN loaded
    ELSE IF Len(Val(loaded)) # 1
    THEN Err("Only one YAML document can be present in the template.")
    ELSE LET doc == Val(loaded)[1]
             template_objects == as_vec(Index(doc, t_objects))
             parameter_specs == as_vec(Index(doc, t_parameters))
         IN  IF template_objects = None
             THEN Err("Key \"objects\" must be present and must be an array.")
             ELSE IF parameter_specs = None
             THEN Err("Key \"parameters\" must be present and must be an array.")
             ELSE LET map == new_parameters(parameter_specs[1], 1, user_values, << >>)
                  IN  IF ~IsOk(map) THEN map
                      ELSE Ok([objects |-> template_objects[1], param_map |-> Val(map),
                               secrets |-> secret_set])

\* base64_encode_secret_data encoding the value it has just encoded
base64_encode_secret_data_twice(data) ==
    IF \E key \in DOMAIN data : TypeOf(data[key]) # "String"
    THEN Err("Encountered non-string secret data value.")
    ELSE Ok([key \in DOMAIN data |-> String(encode(encode(Val(data[key]))))])

\* base64_encode_secret_data: the error, or the map with every value encoded
\* (a map it fails on is dropped with the template, half encoded or not)
base64_encode_secret_data(data) ==
    IF \E key \in DOMAIN data : TypeOf(data[key]) # "String"
    THEN Err("Encountered non-string secret data value.")
    ELSE Ok([key \in DOMAIN data |-> String(encode(Val(data[key])))])

\* maybe_base64_encode_secret skipping a resource without a kind field
maybe_base64_encode_secret_kindless(secret_set, object) ==
    LET leave(res) == [res |-> res, object |-> object]
        kind == Index(object, t_kind)
        metadata == Index(object, t_metadata)
        name == Index(metadata, t_name)
        namespace == Index(metadata, t_namespace)
        secret == [name |-> Val(name),
                   namespace |-> IF TypeOf(namespace) = "String" THEN Val(namespace) ELSE t_default]
        data == Index(object, t_data)
    IN  IF TypeOf(object) # "Hash" THEN leave(Ok(FALSE))
        ELSE IF TypeOf(kind) = "BadValue" THEN leave(Ok(FALSE))
        ELSE IF TypeOf(kind) # "String"
        THEN leave(Err("Encountered a resource with a non-string value for the \"kind\" field."))
        ELSE IF Val(kind) # t_Secret THEN leave(Ok(FALSE))
        ELSE IF TypeOf(metadata) = "BadValue"
        THEN leave(Err("Encountered a resource without a \"metadata\" field."))
        ELSE IF TypeOf(metadata) # "Hash"
        THEN leave(Err("Encountered a resource with a non-hash \"metadata\" field."))
        ELSE IF TypeOf(name) = "BadValue"
        THEN leave(Err("Encountered a resource without a \"metadata.name\" field."))
        ELSE IF TypeOf(name) # "String"
        THEN leave(Err("Encountered a resource with a non-string \"metadata.name\" field."))
        ELSE IF TypeOf(namespace) \notin {"BadValue", "String"}
        THEN leave(Err("Encountered a resource with a non-string \"metadata.namespace\" field."))
        ELSE IF secret \in secret_set /\ TypeOf(data) # "BadValue"
        THEN IF TypeOf(data) = "Hash"
             THEN LET encoded == base64_encode_secret_data(Val(data))
                  IN  IF ~IsOk(encoded) THEN leave(encoded)
                      ELSE [res |-> Ok(TRUE),
                            object |-> Hash([Val(object) EXCEPT ![String(t_data)] =
                                                 Hash(Val(encoded))])]
             ELSE leave(Err("Encountered secret with non-hash \"data\" field."))
        ELSE leave(Ok(FALSE))

\* maybe_base64_encode_secret with no namespace for a resource without one
maybe_base64_encode_secret_no_default(secret_set, object) ==
    LET leave(res) == [res |-> res, object |-> object]
        kind == Index(object, t_kind)
        metadata == Index(object, t_metadata)
        name == Index(metadata, t_name)
        namespace == Index(metadata, t_namespace)
        secret == [name |-> Val(name),
                   namespace |-> IF TypeOf(namespace) = "String" THEN Val(namespace) ELSE << >>]
        data == Index(object, t_data)
    IN  IF TypeOf(object) # "Hash" THEN leave(Ok(FALSE))
        ELSE IF TypeOf(kind) = "BadValue"
        THEN leave(Err("Encountered a resource without a \"kind\" field."))
        ELSE IF TypeOf(kind) # "String"
        THEN leave(Err("Encountered a resource with a non-string value for the \"kind\" field."))
        ELSE IF Val(kind) # t_Secret THEN leave(Ok(FALSE))
        ELSE IF TypeOf(metadata) = "BadValue"
        THEN leave(Err("Encountered a resource without a \"metadata\" field."))
        ELSE IF TypeOf(metadata) # "Hash"
        THEN leave(Err("Encountered a resource with a non-hash \"metadata\" field."))
        ELSE IF TypeOf(name) = "BadValue"
        THEN leave(Err("Encountered a resource without a \"metadata.name\" field."))
        ELSE IF TypeOf(name) # "String"
        THEN leave(Err("Encountered a resource with a non-string \"metadata.name\" field."))
        ELSE IF TypeOf(namespace) \notin {"BadValue", "String"}
        THEN leave(Err("Encountered a resource with a non-string \"metadata.namespace\" field."))
        ELSE IF secret \in secret_set /\ TypeOf(data) # "BadValue"
        THEN IF TypeOf(data) = "Hash"
             THEN LET encoded == base64_encode_secret_data(Val(data))
                  IN  IF ~IsOk(encoded) THEN leave(encoded)
                      ELSE [res |-> Ok(TRUE),
                            object |-> Hash([Val(object) EXCEPT ![String(t_data)] =
                                                 Hash(Val(encoded))])]
             ELSE leave(Err("Encountered secret with non-hash \"data\" field."))
        ELSE leave(Ok(FALSE))

\* maybe_base64_encode_secret: its Result<bool, String> (res) and the object
\* as the call leaves it
maybe_base64_encode_secret(secret_set, object) ==
    LET leave(res) == [res |-> res, object |-> object]
        kind == Index(object, t_kind)
        metadata == Index(object, t_metadata)
        name == Index(metadata, t_name)
        namespace == Index(metadata, t_namespace)
        secret == [name |-> Val(name),
                   namespace |-> IF TypeOf(namespace) = "String" THEN Val(namespace) ELSE t_default]
        data == Index(object, t_data)
    IN  IF TypeOf(object) # "Hash" THEN leave(Ok(FALSE))
        ELSE IF TypeOf(kind) = "BadValue"
        THEN leave(Err("Encountered a resource without a \"kind\" field."))
        ELSE IF TypeOf(kind) # "String"
        THEN leave(Err("Encountered a resource with a non-string value for the \"kind\" field."))
        ELSE IF Val(kind) # t_Secret THEN leave(Ok(FALSE))
        ELSE IF TypeOf(metadata) = "BadValue"
        THEN leave(Err("Encountered a resource without a \"metadata\" field."))
        ELSE IF TypeOf(metadata) # "Hash"
        THEN leave(Err("Encountered a resource with a non-hash \"metadata\" field."))
        ELSE IF TypeOf(name) = "BadValue"
        THEN leave(Err("Encountered a resource without a \"metadata.name\" field."))
        ELSE IF TypeOf(name) # "String"
        THEN leave(Err("Encountered a resource with a non-string \"metadata.name\" field."))
        ELSE IF TypeOf(namespace) \notin {"BadValue", "String"}
        THEN leave(Err("Encountered a resource with a non-string \"metadata.namespace\" field."))
        ELSE IF secret \in secret_set /\ TypeOf(data) # "BadValue"
        THEN IF TypeOf(data) = "Hash"
             THEN LET encoded == base64_encode_secret_data(Val(data))
                  IN  IF ~IsOk(encoded) THEN leave(encoded)
                      ELSE [res |-> Ok(TRUE),
                            object |-> Hash([Val(object) EXCEPT ![String(t_data)] =
                                                 Hash(Val(encoded))])]
             ELSE leave(Err("Encountered secret with non-hash \"data\" field."))
        ELSE leave(Ok(FALSE))

\* YamlEmitter refuses a mapping key that is a sequence or a mapping
RECURSIVE BadHashmapKey(_)
BadHashmapKey(yaml) ==
    IF TypeOf(yaml) = "Array" THEN \E k \in 1..Len(Val(yaml)) : BadHashmapKey(Val(yaml)[k])
    ELSE IF TypeOf(yaml) = "Hash"
    THEN \E key \in DOMAIN Val(yaml) :
            TypeOf(key) \in {"Array", "Hash"} \/ BadHashmapKey(key) \/ BadHashmapKey(Val(yaml)[key])
    ELSE FALSE

\* what dump appends for one object: the emitter's text of it, and the
\* separator "\n"
Emitted(object) == [piece |-> "document", of |-> object]
Separator == [piece |-> "\n", of |-> Null]

\* the loop of dump with the separator after every object, the last too
RECURSIVE dump_from_trailing(_, _, _, _)
dump_from_trailing(objs, k, last, manifests) ==
    IF k > Len(objs) THEN Ok(manifests)
    ELSE IF BadHashmapKey(objs[k]) THEN Err("Bad hashmap key in YAML structure.")
    ELSE dump_from_trailing(objs, k + 1, last,
                            manifests \o << Emitted(objs[k]) >> \o << Separator >>)

\* the loop of dump from the k-th object on, last being objects.len() - 1
RECURSIVE dump_from(_, _, _, _)
dump_from(objs, k, last, manifests) ==
    IF k > Len(objs) THEN Ok(manifests)
    ELSE IF BadHashmapKey(objs[k]) THEN Err("Bad hashmap key in YAML structure.")
    ELSE dump_from(objs, k + 1, last,
                   manifests \o << Emitted(objs[k]) >>
                             \o (IF k - 1 # last THEN << Separator >> ELSE << >>))

\* dump: the outcomes the build can produce.  objects.len() - 1 is computed in
\* usize: on no object it panics where overflow is checked and wraps to the
\* largest usize (-1 stands for it: no index equals it) where it is not.
dump(objs) ==
    IF Len(objs) = 0 THEN {[panic |-> TRUE, res |-> Ok(<< >>)],
                           [panic |-> FALSE, res |-> dump_from(objs, 1, -1, << >>)]}
    ELSE {[panic |-> FALSE, res |-> dump_from(objs, 1, Len(objs) - 1, << >>)]}


(***************************************************************************)
(* The inputs of a run                                                     *)
(***************************************************************************)
\* the longest objects sequence of the runs over ObjectPool
MaxObjects == 2
\* the most parameter declarations of the runs over DeclPool
MaxParams == 2

\* a Hash from a set of <<key text, value>> pairs
HashOf(pairs) ==
    Hash([key \in {String(p[1]) : p \in pairs} |->
            (CHOOSE p \in pairs : String(p[1]) = key)[2]])

\* a template document with these objects and parameter declarations
Doc(objs, parameter_specs) ==
    HashOf({<<t_objects, Array(objs)>>, <<t_parameters, Array(parameter_specs)>>})

\* a map from a set of <<name, value>> pairs
MapOf(pairs) ==
    [key \in {p[1] : p \in pairs} |-> (CHOOSE p \in pairs : p[1] = key)[2]]

SeqsUpTo(S, n) == UNION {[1..m -> S] : m \in 0..n}

\* the two placeholder forms
LiteralForm(name) == <<"$", "(", "(">> \o name \o <<")", ")">>
StringForm(name) == <<"$", "(">> \o name \o <<")">>

\* the names of the runs: A and B are declared with a value, C is declared
\* without one, X is not declared
Names == {<<"A">>, <<"B">>, <<"C">>, <<"X">>}
Prefixes == {<< >>, <<"p", "-">>}
Suffixes == {<< >>, <<"-", "s">>}

\* a node text with one placeholder and text around it
OnePlaceholder ==
    {pre \o ph \o suf :
        pre \in Prefixes, suf \in Suffixes,
        ph \in {LiteralForm(n) : n \in Names} \cup {StringForm(n) : n \in Names}}

\* node texts with two placeholders, or with parentheses around one
TwoPlaceholders ==
    {StringForm(<<"A">>) \o <<"-">> \o StringForm(<<"B">>),
     LiteralForm(<<"A">>) \o <<"-">> \o LiteralForm(<<"B">>),
     LiteralForm(<<"A">>) \o <<" ">> \o StringForm(<<"B">>),
     StringForm(<<"A">>) \o <<" ">> \o LiteralForm(<<"B">>),
     StringForm(<<"A">>) \o <<"\n">> \o StringForm(<<"B">>),
     StringForm(<<"X">>) \o <<"-">> \o StringForm(<<"A">>),
     <<"(">> \o StringForm(<<"A">>) \o <<")">>}

\* node texts without a placeholder
PlainTexts == {<<"d", "b">>, <<"3", "0", "0", "0">>, <<"t", "r", "u", "e">>, <<"~">>}

StringPool == OnePlaceholder \cup TwoPlaceholders \cup PlainTexts

\* the values parameter A resolves to
ValuePool ==
    {<<"3", "0", "0", "0">>, <<"-", "5">>, <<"0", "0", "7">>, t_true, t_false,
     <<"m", "o", "n", "g", "o">>, <<"~">>, <<"1", ".", "5">>, StringForm(<<"B">>)}

\* where a string node sits in an object
Shapes(text) ==
    {String(text),
     HashOf({<<<<"f">>, String(text)>>, <<<<"n">>, Integer(<<"5">>)>>}),
     Array(<<String(text), Boolean(TRUE), Null>>),
     HashOf({<<t_kind, String(<<"S", "v", "c">>)>>,
             <<<<"s">>, HashOf({<<<<"p">>, Array(<<HashOf({<<<<"t">>, String(text)>>,
                                                        <<<<"r">>, Real(<<"1", ".", "5">>)>>})>>)>>})>>}),
     Hash([key \in {String(text)} |-> String(text)])}

\* a parameter declaration from a set of <<field, value>> pairs
Decl(name, fields) == HashOf({<<t_name, String(name)>>} \cup fields)

\* the declarations of A, B and C of the runs over StringPool
TextDecls ==
    <<Decl(<<"A">>, {}),
      Decl(<<"B">>, {<<t_value, String(<<"b">>)>>}),
      Decl(<<"C">>, {})>>

\* the fields a declaration can carry
TypeFields ==
    {{}} \cup {{<<t_parameterType, String(ty)>>} :
                 ty \in {t_base64, t_bool, t_int, t_string, <<"I", "n", "t">>}}
         \cup {{<<t_parameterType, Integer(<<"5">>)>>}, {<<t_parameterType, Boolean(TRUE)>>}}
RequiredFields == {{}, {<<t_required, Boolean(TRUE)>>}}
ValueFields ==
    {{}} \cup {{<<t_value, value>>} :
                 value \in {String(<<"d", "v">>), Integer(<<"4", "2">>), Boolean(FALSE),
                            Null, Real(<<"1", ".", "5">>)}}

\* the declarations of A of the runs over the declarations
DeclPool ==
    {Decl(<<"A">>, ty \cup req \cup val) :
        ty \in TypeFields, req \in RequiredFields, val \in ValueFields}

\* the declarations that may follow: B with a default, B required without one
MoreDecls ==
    {Decl(<<"B">>, {<<t_value, String(<<"b">>)>>}),
     Decl(<<"B">>, {<<t_required, Boolean(TRUE)>>})}

t_foo == <<"f", "o", "o">>
t_Zm9v == <<"Z", "m", "9", "v">>
SuppliedPool == {<< >>, MapOf({<<<<"A">>, Plain(t_foo)>>}), MapOf({<<<<"A">>, Encoded(t_Zm9v)>>})}

\* a resource of kind Secret
SecretObject(name, fields) ==
    HashOf({<<t_kind, String(t_Secret)>>,
            <<t_metadata, HashOf({<<t_name, String(name)>>} \cup fields)>>})
WithData(object, data) == Hash(Insert(Val(object), String(t_data), data))

t_w == <<"w">>
t_g == <<"g">>
t_ns == <<"n", "s">>
t_k == <<"k">>
t_j == <<"j">>

ObjectPool ==
    {WithData(SecretObject(t_w, {}), HashOf({<<t_k, String(StringForm(<<"A">>))>>})),
     WithData(SecretObject(t_w, {<<t_namespace, String(t_default)>>}),
              HashOf({<<t_k, String(<<"x">>)>>,
                      <<t_j, String(<<"p", "-">> \o StringForm(<<"A">>))>>})),
     WithData(SecretObject(t_g, {}), HashOf({<<t_k, String(StringForm(<<"A">>))>>})),
     SecretObject(t_w, {}),
     WithData(SecretObject(t_w, {<<t_namespace, String(t_ns)>>}),
              HashOf({<<t_k, String(StringForm(<<"A">>))>>})),
     WithData(SecretObject(t_w, {}), HashOf({<<t_k, String(LiteralForm(<<"P">>))>>})),
     WithData(SecretObject(t_w, {}), String(<<"x">>)),
     HashOf({<<t_kind, String(<<"S", "v", "c">>)>>,
             <<t_metadata, HashOf({<<t_name, String(StringForm(<<"A">>))>>})>>}),
     HashOf({<<t_metadata, HashOf({<<t_name, String(t_w)>>})>>}),
     String(StringForm(<<"A">>))}

Secret(name, namespace) == [name |-> name, namespace |-> namespace]

SecretSets ==
    {None, Some({}), Some({Secret(t_w, t_default)}),
     Some({Secret(t_w, t_default), Secret(t_g, t_default)})}

\* the declarations of the runs over ObjectPool: A supplied, P with a default
ObjectDecls ==
    <<Decl(<<"A">>, {<<t_required, Boolean(TRUE)>>}),
      Decl(<<"P">>, {<<t_value, Integer(<<"3", "0", "0", "0">>)>>})>>

t_pw == <<"p", "w">>

\* runs over the node texts: one object, A resolved to a value of ValuePool
InitTexts ==
    \E text \in StringPool : \E object \in Shapes(text) : \E value \in ValuePool :
        /\ docs = Ok(<<Doc(<<object>>, TextDecls)>>)
        /\ parameter_values = MapOf({<<<<"A">>, Plain(value)>>})
        /\ secrets = None

\* runs of a template without parameters
InitNoParameters ==
    \E text \in StringPool : \E object \in Shapes(text) :
        /\ docs = Ok(<<Doc(<<object>>, << >>)>>)
        /\ parameter_values \in SuppliedPool
        /\ secrets = None

\* runs over the parameter declarations
InitDecls ==
    \E first \in DeclPool : \E more \in SeqsUpTo(MoreDecls, MaxParams - 1) :
        /\ docs = Ok(<<Doc(<<HashOf({<<<<"f">>, String(StringForm(<<"A">>))>>})>>,
                           <<first>> \o more)>>)
        /\ parameter_values \in SuppliedPool
        /\ secrets = None

\* runs over the objects and the secret sets
InitObjects ==
    \E objs \in SeqsUpTo(ObjectPool, MaxObjects) :
        /\ docs = Ok(<<Doc(objs, ObjectDecls)>>)
        /\ parameter_values = MapOf({<<<<"A">>, Plain(t_pw)>>})
        /\ secrets \in SecretSets

\* declarations that fail, and one that does not
FailingDecls ==
    {Decl(<<"A">>, {<<t_value, String(<<"a">>)>>}),
     HashOf({<<t_value, String(<<"a">>)>>}),
     Decl(<<"B">>, {<<t_parameterType, String(<<"I", "n", "t">>)>>}),
     Decl(<<"C">>, {<<t_required, Boolean(TRUE)>>})}

\* what YamlLoader::load_from_str returns for the template text: an error,
\* no document, two documents, or one document, which may lack a key or
\* hold something else than a sequence under it
DocsPool ==
    LET object == HashOf({<<<<"f">>, String(StringForm(<<"A">>))>>})
        good == Doc(<<object>>, <<Decl(<<"A">>, {<<t_value, String(<<"a">>)>>})>>)
    IN  {Err("did not find expected node content"),
         Ok(<< >>),
         Ok(<<good, good>>),
         Ok(<<Array(<<object>>)>>),
         Ok(<<HashOf({<<t_parameters, Array(<< >>)>>})>>),
         Ok(<<HashOf({<<t_objects, Array(<<object>>)>>})>>),
         Ok(<<HashOf({<<t_objects, object>>, <<t_parameters, Array(<< >>)>>})>>),
         Ok(<<HashOf({<<t_objects, Array(<<object>>)>>, <<t_parameters, String(<<"A">>)>>})>>),
         Ok(<<HashOf({<<t_objects, String(<<"x">>)>>,
                      <<t_parameters, Array(<<Decl(<<"C">>, {<<t_required, Boolean(TRUE)>>})>>)>>})>>)}
    \cup {Ok(<<Doc(<<object>>, decls)>>) : decls \in SeqsUpTo(FailingDecls, MaxParams)}

\* runs over the template texts, well formed or not
InitDocuments ==
    /\ docs \in DocsPool
    /\ parameter_values = << >>
    /\ secrets = None

t_z == <<"z">>

\* resources of every shape the secret step tells apart
ShapePool ==
    LET meta == <<t_metadata, HashOf({<<t_name, String(t_w)>>})>>
        data == HashOf({<<t_k, String(<<"x">>)>>})
    IN  {HashOf({meta}),
         HashOf({<<t_kind, Integer(<<"5">>)>>, meta}),
         HashOf({<<t_kind, String(LiteralForm(<<"P">>))>>, meta}),
         HashOf({<<t_kind, String(StringForm(<<"A">>))>>, meta}),
         HashOf({<<t_kind, String(t_Secret)>>}),
         HashOf({<<t_kind, String(t_Secret)>>, <<t_metadata, String(t_w)>>}),
         HashOf({<<t_kind, String(t_Secret)>>,
                 <<t_metadata, HashOf({<<t_namespace, String(t_default)>>})>>}),
         HashOf({<<t_kind, String(t_Secret)>>,
                 <<t_metadata, HashOf({<<t_name, Integer(<<"5">>)>>})>>}),
         WithData(SecretObject(t_w, {<<t_namespace, Integer(<<"5">>)>>}), data),
         WithData(SecretObject(t_z, {<<t_namespace, Integer(<<"5">>)>>}), data),
         WithData(SecretObject(t_z, {}), String(<<"x">>)),
         WithData(SecretObject(t_z, {}), data),
         WithData(SecretObject(t_w, {}), HashOf({<<t_k, Integer(<<"5">>)>>})),
         WithData(SecretObject(t_w, {}), data),
         HashOf({<<t_kind, String(<<"S", "v", "c">>)>>, <<t_metadata, String(t_w)>>,
                 <<t_data, String(<<"x">>)>>}),
         HashOf({<<t_kind, String(<<"S", "v", "c">>)>>}),
         Array(<<String(t_Secret)>>),
         Integer(<<"5">>)}

\* runs over the shapes: one resource, with and without a secret set
InitShapes ==
    \E object \in ShapePool :
        /\ docs = Ok(<<Doc(<<object>>, ObjectDecls)>>)
        /\ parameter_values = MapOf({<<<<"A">>, Plain(t_pw)>>})
        /\ secrets \in SecretSets

Init ==
    /\ \/ InitTexts \/ InitNoParameters \/ InitDecls \/ InitObjects \/ InitDocuments
       \/ InitShapes
    /\ pc = "New"
    /\ objects = << >>
    /\ param_map = << >>
    /\ i = 1
    /\ secrets_encoded = 0
    /\ result = None

(***************************************************************************)
(* The run: Template::new, then Template::process                          *)
(***************************************************************************)
TemplateNew ==
    /\ pc = "New"
    /\ LET template == Template_new(docs, parameter_values, secrets)
       IN  IF IsOk(template)
           THEN /\ objects' = Val(template).objects
                /\ param_map' = Val(template).param_map
                /\ pc' = "Loop"
                /\ result' = None
           ELSE /\ pc' = "NoTemplate"
                /\ result' = Some(template)
                /\ UNCHANGED <<objects, param_map>>
    /\ UNCHANGED <<docs, parameter_values, secrets, i, secrets_encoded>>

\* process(), the loop body's first statement: process_yaml(object, ..),
\* whose returned value is not used
Interpolate ==
    /\ pc = "Loop"
    /\ i <= Len(objects)
    /\ objects' = [objects EXCEPT ![i] = process_yaml(@, param_map).node]
    /\ pc' = "Encode"
    /\ UNCHANGED <<docs, parameter_values, secrets, param_map, i, secrets_encoded, result>>

\* process(), the rest of the loop body: the secret of the object
EncodeSecret ==
    /\ pc = "Encode"
    /\ IF secrets = None
       THEN /\ pc' = "Loop"
            /\ i' = i + 1
            /\ UNCHANGED <<objects, secrets_encoded, result>>
       ELSE LET r == maybe_base64_encode_secret(secrets[1], objects[i])
            IN  IF IsOk(r.res)
                THEN /\ objects' = [objects EXCEPT ![i] = r.object]
                     /\ secrets_encoded' = secrets_encoded + (IF Val(r.res) THEN 1 ELSE 0)
                     /\ pc' = "Loop"
                     /\ i' = i + 1
                     /\ result' = result
                ELSE /\ pc' = "Failed"
                     /\ result' = Some(r.res)
                     /\ UNCHANGED <<objects, secrets_encoded, i>>
    /\ UNCHANGED <<docs, parameter_values, secrets, param_map>>

\* process(), after the loop: the count of the secrets, then dump
Finish ==
    /\ pc = "Loop"
    /\ i > Len(objects)
    /\ IF secrets # None /\ secrets_encoded # Cardinality(secrets[1])
       THEN /\ pc' = "Failed"
            /\ result' = Some(Err("Not all secrets specified were found."))
       ELSE \E outcome \in dump(objects) :
               IF outcome.panic
               THEN pc' = "Panicked" /\ result' = None
               ELSE /\ pc' = IF IsOk(outcome.res) THEN "Processed" ELSE "Failed"
                    /\ result' = Some(outcome.res)
    /\ UNCHANGED <<docs, parameter_values, secrets, objects, param_map, i, secrets_encoded>>

Next == TemplateNew \/ Interpolate \/ EncodeSecret \/ Finish

Spec == Init /\ [][Next]_vars

(***************************************************************************)
(* What the claims speak of                                                *)
(***************************************************************************)
\* the run has a template: Template::new returned Ok
HasTemplate == pc \in {"Loop", "Encode", "Processed", "Failed", "Panicked"}

\* the objects and the parameter declarations of the template text
InputDoc == IF IsOk(docs) /\ Len(Val(docs)) = 1 THEN Val(docs)[1] ELSE BadValue
InputObjects == unwrap_or(as_vec(Index(InputDoc, t_objects)), << >>)
InputDecls == unwrap_or(as_vec(Index(InputDoc, t_parameters)), << >>)
\* the text is one document with a sequence under objects and under parameters
HasSequences ==
    /\ TypeOf(Index(InputDoc, t_objects)) = "Array"
    /\ TypeOf(Index(InputDoc, t_parameters)) = "Array"

\* the field of a mapping node, as an Option
Field(yaml, key) ==
    IF TypeOf(yaml) = "Hash" /\ String(key) \in DOMAIN Val(yaml)
    THEN Some(Val(yaml)[String(key)]) ELSE None

IsText(opt) == opt # None /\ TypeOf(opt[1]) = "String"

\* the object is a Secret resource of this identity
IsSecretOf(object, identity) ==
    /\ Field(object, t_kind) = Some(String(t_Secret))
    /\ Field(object, t_metadata) # None
    /\ LET metadata == Field(object, t_metadata)[1]
       IN  /\ Field(metadata, t_name) = Some(String(identity.name))
           /\ \/ Field(metadata, t_namespace) = Some(String(identity.namespace))
              \/ /\ Field(metadata, t_namespace) = None
                 /\ identity.namespace = t_default

\* the object has a data mapping, all of whose values are strings
HasTextData(object) ==
    /\ Field(object, t_data) # None
    /\ LET data == Field(object, t_data)[1]
       IN  /\ TypeOf(data) = "Hash"
           /\ \A key \in DOMAIN Val(data) : TypeOf(Val(data)[key]) = "String"

\* C1: when the configured secret set holds an identity that no object of the
\* objects sequence matches, process() returns an error and no output text,
\* whatever the objects are (also when another identity is matched twice).
C1_SecretCompleteness ==
    (secrets # None /\ pc \in {"Processed", "Panicked"})
        => \A identity \in secrets[1] :
              \E k \in 1..Len(objects) : IsSecretOf(objects[k], identity)

\* C2: a step over an object that matches a configured identity and has a
\* data mapping of strings succeeds, and leaves under data the Base64
\* encoding of each value as interpolation left it; the object is not changed
\* again, and is what the output holds for it.
C2_Step ==
    (pc = "Encode" /\ secrets # None
       /\ (\E identity \in secrets[1] : IsSecretOf(objects[i], identity))
       /\ HasTextData(objects[i]))
        => /\ pc' = "Loop"
           /\ i' = i + 1
           /\ Field(objects'[i], t_data) =
                 Some(Hash([key \in DOMAIN Val(Field(objects[i], t_data)[1]) |->
                              String(encode(Val(Val(Field(objects[i], t_data)[1])[key])))]))
C2_Once == \A k \in 1..Len(objects) : (k < i /\ HasTemplate) => objects'[k] = objects[k]
C2_Output ==
    pc = "Processed" =>
        \A k \in 1..Len(objects) : \E m \in 1..Len(Val(result[1])) :
            Val(result[1])[m] = Emitted(objects[k])
C2_EncodingAfterInterpolation == [][C2_Step /\ C2_Once]_vars /\ []C2_Output

\* the Base64 text of "pw", the value of A in the runs over the objects
t_cHc == <<"c", "H", "c", "=">>

\* C2 witness: the first object held data k: "$(A)" and matched the configured
\* identity; after its step k holds the encoding of the value of A.
C2_Witness ==
    /\ pc = "Loop" /\ i = 2 /\ secrets_encoded = 1
    /\ Field(InputObjects[1], t_data) = Some(HashOf({<<t_k, String(StringForm(<<"A">>))>>}))
    /\ Field(objects[1], t_data) = Some(HashOf({<<t_k, String(t_cHc)>>}))

\* a declaration is required: true
IsRequired(decl) == Field(decl, t_required) = Some(Boolean(TRUE))
\* a value is supplied for the name of the declaration
IsSupplied(decl) ==
    IsText(Field(decl, t_name)) /\ Val(Field(decl, t_name)[1]) \in DOMAIN parameter_values
\* the declaration carries an inline value (a boolean, an integer or a string)
HasInline(decl) ==
    /\ Field(decl, t_value) # None
    /\ TypeOf(Field(decl, t_value)[1]) \in {"Boolean", "Integer", "String"}
ValidTypes == {t_base64, t_bool, t_int, t_string}
\* all but the value of the declaration is valid
ValidBesidesValue(decl) ==
    /\ IsText(Field(decl, t_name))
    /\ IsText(Field(decl, t_parameterType))
          => Val(Field(decl, t_parameterType)[1]) \in ValidTypes

\* C3: Template::new fails when a declaration is required: true and has
\* neither a supplied nor an inline value, and succeeds, on a document with
\* its two sequences, when every declaration is valid and every required one
\* has a supplied or an inline value.
C3_RequiredEnforced ==
    pc # "New" =>
        /\ (\E k \in 1..Len(InputDecls) :
               /\ IsRequired(InputDecls[k])
               /\ ~IsSupplied(InputDecls[k])
               /\ ~HasInline(InputDecls[k]))
              => pc = "NoTemplate"
        /\ (/\ HasSequences
            /\ \A k \in 1..Len(InputDecls) :
                  /\ ValidBesidesValue(InputDecls[k])
                  /\ IsRequired(InputDecls[k])
                        => (IsSupplied(InputDecls[k]) \/ HasInline(InputDecls[k])))
              => HasTemplate

\* C3 witness: the required declaration of A, with a valid type and neither a
\* supplied nor an inline value, made Template::new fail.
C3_Witness ==
    /\ pc = "NoTemplate"
    /\ Len(InputDecls) = 1
    /\ IsRequired(InputDecls[1]) /\ ValidBesidesValue(InputDecls[1])
    /\ ~IsSupplied(InputDecls[1]) /\ ~HasInline(InputDecls[1])
    /\ result = Some(ErrWith("Parameter {} required and must be {}", <<<<"A">>, "an int">>))

\* the value the claim gives the parameter of a declaration
C4_Reference(decl) ==
    LET name == Val(Field(decl, t_name)[1])
        inline == Field(decl, t_value)[1]
    IN  IF IsSupplied(decl)
        THEN IF /\ Field(decl, t_parameterType) = Some(String(t_base64))
                /\ parameter_values[name].tag = "Plain"
             THEN Some(encode(parameter_values[name].text))
             ELSE Some(parameter_values[name].text)
        ELSE IF HasInline(decl)
        THEN IF inline = Boolean(TRUE) THEN Some(t_true)
             ELSE IF inline = Boolean(FALSE) THEN Some(t_false)
             ELSE Some(Val(inline))
        ELSE None

\* C4: the value of every parameter of the template is the supplied value
\* (Base64 encoded when the type is base64 and the value is Plain), else the
\* text of the inline boolean, integer or string, else none.
C4_ValueResolution ==
    HasTemplate =>
        \A k \in 1..Len(InputDecls) :
            LET name == Val(Field(InputDecls[k], t_name)[1])
            IN  (\A m \in (k + 1)..Len(InputDecls) :
                    Field(InputDecls[m], t_name) # Field(InputDecls[k], t_name))
                  => /\ name \in DOMAIN param_map
                     /\ param_map[name].value = C4_Reference(InputDecls[k])

\* C4 witness: A of type base64 with an inline value was supplied as Plain("foo")
\* and resolved to "Zm9v".
C4_Witness ==
    /\ HasTemplate
    /\ Len(InputDecls) >= 1
    /\ <<"A">> \in DOMAIN param_map
    /\ Field(InputDecls[1], t_parameterType) = Some(String(t_base64))
    /\ HasInline(InputDecls[1])
    /\ parameter_values = MapOf({<<<<"A">>, Plain(t_foo)>>})
    /\ param_map[<<"A">>].value = Some(t_Zm9v)

\* C5: Template::new fails whenever a declaration carries a parameterType that
\* is not one of the strings base64, bool, int, string, be it a wrongly cased
\* string or a value that is no string.
C5_ParameterTypeValidated ==
    (pc # "New" /\ \E k \in 1..Len(InputDecls) :
                      /\ Field(InputDecls[k], t_parameterType) # None
                      /\ Field(InputDecls[k], t_parameterType)[1]
                            \notin {String(ty) : ty \in ValidTypes})
        => pc = "NoTemplate"

\* the scalar nodes of an object before and after a call of process_yaml, in
\* pairs: the same place of the tree before and after
RECURSIVE Pairs(_, _)
Pairs(before, after) ==
    IF /\ TypeOf(before) = "Array" /\ TypeOf(after) = "Array"
       /\ Len(Val(before)) = Len(Val(after))
    THEN UNION {Pairs(Val(before)[k], Val(after)[k]) : k \in 1..Len(Val(before))}
    ELSE IF /\ TypeOf(before) = "Hash" /\ TypeOf(after) = "Hash"
            /\ DOMAIN Val(before) = DOMAIN Val(after)
    THEN UNION {Pairs(Val(before)[key], Val(after)[key]) : key \in DOMAIN Val(before)}
    ELSE {<<before, after>>}

\* the pairs of the object the loop has just interpolated: all of them, and
\* those of the nodes held in a sequence or a mapping
NodePairs == IF pc = "Encode" THEN Pairs(InputObjects[i], objects[i]) ELSE {}
ChildPairs ==
    IF pc = "Encode" /\ TypeOf(InputObjects[i]) \in {"Array", "Hash"} THEN NodePairs ELSE {}

Declared(name) == name \in DOMAIN param_map
Resolved(name) == Declared(name) /\ param_map[name].value # None
ValueOf(name) == param_map[name].value[1]
AllNames == Names \cup {<<"P">>}

HasNoPlaceholder(text) == \A k \in 1..Len(text) : text[k] # "$"
IsMinusDigits(text) == Len(text) >= 2 /\ text[1] = "-" /\ IsDigits(Tail(text))
IsDecimal(text) ==
    \E d \in 2..(Len(text) - 1) :
        text[d] = "." /\ IsDigits(SubSeq(text, 1, d - 1)) /\ IsDigits(SubSeq(text, d + 1, Len(text)))
Letters == {Printable[k] : k \in 34..59} \cup {Printable[k] : k \in 66..91}
IsWord(text) ==
    /\ \A k \in 1..Len(text) : text[k] \in Letters
    /\ text \notin {t_true, t_false, <<"n", "u", "l", "l">>}

\* a node that contains $(name) and no other parenthesis becomes the string
\* of the text around it with the value in its place
C6_StringForm(before, after) ==
    \A name \in AllNames : \A pre \in Prefixes : \A suf \in Suffixes :
        (Resolved(name) /\ before = String(pre \o StringForm(name) \o suf))
            => after = String(pre \o ValueOf(name) \o suf)

\* the claim as it stands: the node $((name)) becomes an integer when the
\* value is decimal digits, a boolean when it is true or false, a string
\* otherwise
C6_LiteralFormAsClaimed(before, after) ==
    \A name \in AllNames :
        (Resolved(name) /\ HasNoPlaceholder(ValueOf(name))
           /\ before = String(LiteralForm(name)))
            => LET value == ValueOf(name)
               IN  IF IsDigits(value) THEN TypeOf(after) = "Integer"
                   ELSE IF value \in {t_true, t_false} THEN after = Boolean(value = t_true)
                   ELSE after = String(value)

C6_LiteralForm(before, after) ==
    \A name \in AllNames :
        (Resolved(name) /\ HasNoPlaceholder(ValueOf(name))
           /\ before = String(LiteralForm(name)))
            => LET value == ValueOf(name)
               IN  /\ value \in {<<"~">>, <<"n", "u", "l", "l">>} => after = Null
                   /\ value \in {t_true, t_false} => after = Boolean(value = t_true)
                   /\ (IsDigits(value) \/ IsMinusDigits(value)) => TypeOf(after) = "Integer"
                   /\ (IsDigits(value) /\ (value[1] # "0" \/ Len(value) = 1) /\ Len(value) < 19)
                         => after = Integer(value)
                   /\ IsDecimal(value) => after = Real(value)
                   /\ IsWord(value) => after = String(value)

C7_FailedLookup ==
    /\ \A pair \in ChildPairs : \A name \in AllNames : \A pre \in Prefixes : \A suf \in Suffixes :
          /\ (~Declared(name)
                /\ pair[1] \in {String(pre \o StringForm(name) \o suf),
                                String(pre \o LiteralForm(name) \o suf)})
                => pair[2] = pair[1]
          /\ (Declared(name) /\ ~Resolved(name))
                => /\ pair[1] = String(pre \o StringForm(name) \o suf)
                         => pair[2] = String(pre \o <<"~">> \o suf)
                   /\ pair[1] = String(LiteralForm(name)) => pair[2] = Null
                   /\ (pair[1] = String(pre \o LiteralForm(name) \o suf) /\ pre \o suf # << >>)
                         => pair[2] = String(pre \o <<"~">> \o suf)
    /\ secrets = None => pc # "Failed"

\* C7 witness: C is declared without a value, and the node $((C)) of a mapping
\* has become a null node.
C7_Witness ==
    /\ pc = "Encode"
    /\ Declared(<<"C">>) /\ ~Resolved(<<"C">>) /\ ~Declared(<<"X">>)
    /\ Field(InputObjects[i], <<"f">>) = Some(String(LiteralForm(<<"C">>)))
    /\ Field(objects[i], <<"f">>) = Some(Null)

\* C8: in a string node with two placeholders of the string form, each one
\* whose name is resolved is replaced by the value of its name, and the text
\* between them is kept.
C8_EveryPlaceholder ==
    \A pair \in ChildPairs : \A first \in AllNames : \A second \in AllNames :
      \A between \in {<<"-">>, <<" ">>, <<"\n">>} :
        (Resolved(first) /\ Resolved(second)
           /\ pair[1] = String(StringForm(first) \o between \o StringForm(second)))
            => pair[2] = String(ValueOf(first) \o between \o ValueOf(second))

\* C9: after process_yaml of an object, every string node of it, the root of
\* the object included, has had its placeholder replaced.
C9_TraversalCoverage ==
    \A pair \in NodePairs : C6_StringForm(pair[1], pair[2])

\* process_yaml keeps the keys, the lengths, the order and the scalars that
\* are no strings; a string becomes a scalar
RECURSIVE Frame(_, _)
Frame(before, after) ==
    IF TypeOf(before) = "Array"
    THEN /\ TypeOf(after) = "Array"
         /\ Len(Val(after)) = Len(Val(before))
         /\ \A k \in 1..Len(Val(before)) : Frame(Val(before)[k], Val(after)[k])
    ELSE IF TypeOf(before) = "Hash"
    THEN /\ TypeOf(after) = "Hash"
         /\ DOMAIN Val(after) = DOMAIN Val(before)
         /\ \A key \in DOMAIN Val(before) : Frame(Val(before)[key], Val(after)[key])
    ELSE IF TypeOf(before) = "String"
    THEN TypeOf(after) \in {"Null", "Boolean", "Integer", "Real", "String"}
    ELSE after = before

C10_Step ==
    (pc = "Loop" /\ pc' = "Encode")
        => /\ Len(objects') = Len(objects)
           /\ \A k \in 1..Len(objects) :
                 IF k = i THEN Frame(objects[k], objects'[k]) ELSE objects'[k] = objects[k]
C10_Identity ==
    (HasTemplate /\ Len(InputDecls) = 0 /\ secrets = None) => objects = InputObjects

\* C10: process_yaml changes no mapping key, no scalar that is not a string,
\* no length of a sequence or mapping and no order of siblings; the objects of
\* a template without parameters and without a secret set stay the parsed ones.
C10_Frame == [][C10_Step]_vars /\ []C10_Identity

\* C10 witness: the mapping whose key and value were both $(A) has kept the
\* key, and its value is the value of A.
C10_Witness ==
    /\ pc = "Encode"
    /\ Resolved(<<"A">>) /\ ValueOf(<<"A">>) = <<"m", "o", "n", "g", "o">>
    /\ InputObjects[i] = Hash([key \in {String(StringForm(<<"A">>))} |->
                                 String(StringForm(<<"A">>))])
    /\ objects[i] = Hash([key \in {String(StringForm(<<"A">>))} |->
                            String(<<"m", "o", "n", "g", "o">>)])

\* the declarations for which Parameter::new returns an error
FailingAt == {k \in 1..Len(InputDecls) : ~IsOk(Parameter_new(InputDecls[k], parameter_values))}
NameOf(decl) == Val(Field(decl, t_name)[1])

\* C11: Template::new returns an error and no Template when the text is not
\* exactly one document, when objects or parameters is absent or no sequence,
\* or when a declaration fails; the error is then that of the first failing
\* declaration in document order, and a Template holds the parameter of every
\* declaration.
C11_AllOrNothing ==
    pc # "New" =>
        /\ (~HasSequences \/ FailingAt # {})
              => /\ pc = "NoTemplate"
                 /\ objects = << >> /\ param_map = << >>
                 /\ result # None /\ ~IsOk(result[1])
        /\ (HasSequences /\ FailingAt # {})
              => result = Some(Parameter_new(InputDecls[Min(FailingAt)], parameter_values))
        /\ HasTemplate
              => /\ HasSequences /\ FailingAt = {}
                 /\ Len(objects) = Len(InputObjects)
                 /\ DOMAIN param_map = {NameOf(InputDecls[k]) : k \in 1..Len(InputDecls)}

\* C11 witness: the first declaration has no name and the second a wrong
\* parameterType; Template::new has returned the error of the first.
C11_Witness ==
    /\ pc = "NoTemplate"
    /\ HasSequences /\ Len(InputDecls) = 2
    /\ Field(InputDecls[1], t_name) = None
    /\ Field(InputDecls[2], t_parameterType) = Some(String(<<"I", "n", "t">>))
    /\ result = Some(Err("Parameters must have a \"name\" field."))

\* what the loop body of process() makes of an object of the template
Transformed(object) ==
    LET node == process_yaml(object, param_map).node
    IN  IF secrets = None THEN node
        ELSE maybe_base64_encode_secret(secrets[1], node).object

\* C12: the output of a successful process() on n objects is n blocks, the
\* k-th the serialization of the k-th object of the objects sequence as
\* transformed, with one separator between two blocks and none after the
\* last; no block is a parameter declaration.
C12_OutputOrdering ==
    pc = "Processed" =>
        LET out == Val(result[1])
            n == Len(InputObjects)
        IN  /\ Len(objects) = n
            /\ Len(out) = IF n = 0 THEN 0 ELSE 2 * n - 1
            /\ \A k \in 1..n :
                  /\ out[2 * k - 1] = Emitted(objects[k])
                  /\ objects[k] = Transformed(InputObjects[k])
            /\ \A k \in 1..(n - 1) : out[2 * k] = Separator
            /\ \A m \in 1..Len(out) : \A k \in 1..Len(InputDecls) : out[m].of # InputDecls[k]

\* C12 witness: process() has succeeded on two different objects, and its
\* output is the first, a separator, the second.
C12_Witness ==
    /\ pc = "Processed"
    /\ Len(InputObjects) = 2 /\ InputObjects[1] # InputObjects[2]
    /\ Val(result[1]) = <<Emitted(objects[1]), Separator, Emitted(objects[2])>>
    /\ objects[1] # InputObjects[1]

\* a mapping object whose shape the secret step rejects: no kind or a kind
\* that is no string, or kind Secret with a metadata, name or namespace that
\* is not as it must be
MetadataError(object) ==
    LET metadata == Field(object, t_metadata)
    IN  \/ metadata = None
        \/ TypeOf(metadata[1]) # "Hash"
        \/ ~IsText(Field(metadata[1], t_name))
        \/ /\ Field(metadata[1], t_namespace) # None
           /\ ~IsText(Field(metadata[1], t_namespace))
ShapeError(object) ==
    /\ TypeOf(object) = "Hash"
    /\ \/ ~IsText(Field(object, t_kind))
       \/ Field(object, t_kind) = Some(String(t_Secret)) /\ MetadataError(object)

\* an object the secret step passes by: no mapping, or of another kind
Skipped(object) ==
    \/ TypeOf(object) # "Hash"
    \/ IsText(Field(object, t_kind)) /\ Field(object, t_kind) # Some(String(t_Secret))

C13_Step ==
    (pc = "Encode" /\ secrets # None)
        => /\ ShapeError(objects[i])
                => pc' = "Failed" /\ result' # None /\ ~IsOk(result'[1])
           /\ Skipped(objects[i])
                => /\ pc' = "Loop" /\ i' = i + 1
                   /\ objects' = objects /\ secrets_encoded' = secrets_encoded

\* C13: with a secret set configured, the step of process() over a mapping
\* object without a kind or with a kind that is no string fails, and so does
\* the step over an object of kind Secret, in the set or not, whose metadata
\* is absent or no mapping, whose metadata.name is absent or no string, or
\* whose metadata.namespace is present and no string; an object of another
\* kind and an object that is no mapping are passed by unchanged.
C13_SecretShapeErrors == [][C13_Step]_vars

\* C13 witness: the Secret z, which the set {w/default} does not hold, has a
\* namespace that is no string, and process() has failed on it.
C13_Witness ==
    /\ pc = "Failed"
    /\ secrets = Some({Secret(t_w, t_default)})
    /\ Len(objects) = 1
    /\ Field(objects[1], t_metadata) # None
    /\ Field(Field(objects[1], t_metadata)[1], t_name) = Some(String(t_z))
    /\ Field(Field(objects[1], t_metadata)[1], t_namespace) = Some(Integer(<<"5">>))
    /\ result = Some(Err("Encountered a resource with a non-string \"metadata.namespace\" field."))

\* the object is a Secret resource whose identity the configured set holds
Matched(object) ==
    secrets # None /\ \E identity \in secrets[1] : IsSecretOf(object, identity)

\* the object with every value of its data mapping Base64 encoded
DataEncoded(object) ==
    LET data == Val(Field(object, t_data)[1])
    IN  Hash([key \in DOMAIN Val(object) |->
                IF key = String(t_data)
                THEN Hash([d \in DOMAIN data |-> String(encode(Val(data[d])))])
                ELSE Val(object)[key]])

C14_Step ==
    pc = "Encode"
        => /\ (Matched(objects[i]) /\ HasTextData(objects[i]))
                => /\ pc' = "Loop"
                   /\ objects'[i] = DataEncoded(objects[i])
                   /\ objects'[i] # objects[i]
           /\ ~Matched(objects[i])
                => /\ objects' = objects
                   /\ pc' = "Failed" => ShapeError(objects[i])

\* C14: the step of process() after interpolation encodes the data values of
\* an object exactly when a secret set is configured, the object is a mapping
\* of kind Secret and its name with its namespace (default when it has none)
\* is in the set; any other object stays as interpolation left it, and the
\* step fails on it for no reason of its data field.
C14_SecretMatchCondition == [][C14_Step]_vars

\* C14 witness: of two Secrets named w with the same data, the one without a
\* namespace matched w/default and holds the encoded value, the one in the
\* namespace ns holds the interpolated value.
C14_Witness ==
    /\ pc = "Loop" /\ i = 3
    /\ secrets = Some({Secret(t_w, t_default)})
    /\ Len(InputObjects) = 2
    /\ \A k \in 1..2 : IsSecretOf(InputObjects[k], Secret(t_w, IF k = 1 THEN t_default ELSE t_ns))
    /\ Field(Field(InputObjects[1], t_metadata)[1], t_namespace) = None
    /\ Field(Field(InputObjects[2], t_metadata)[1], t_namespace) = Some(String(t_ns))
    /\ Field(objects[1], t_data) = Some(HashOf({<<t_k, String(t_cHc)>>}))
    /\ Field(objects[2], t_data) = Some(HashOf({<<t_k, String(t_pw)>>}))

\* the objects that match the identity
MatchesOf(identity) == {k \in 1..Len(objects) : IsSecretOf(objects[k], identity)}

\* C15: a run in which every configured identity is matched by exactly one
\* well-formed Secret, with a data mapping of strings or with no data field,
\* does not fail with the completeness error.
C15_DatalessSecretSatisfies ==
    (/\ secrets # None /\ pc \in {"Processed", "Failed", "Panicked"}
     /\ \A identity \in secrets[1] : Cardinality(MatchesOf(identity)) = 1
     /\ \A k \in 1..Len(objects) :
           /\ ~ShapeError(objects[k])
           /\ Matched(objects[k])
                 => (Field(objects[k], t_data) = None \/ HasTextData(objects[k])))
        => result # Some(Err("Not all secrets specified were found."))

\* the two nodes with a placeholder of each form, A and B both resolved
LiteralThenString == LiteralForm(<<"A">>) \o <<" ">> \o StringForm(<<"B">>)
StringThenLiteral == StringForm(<<"A">>) \o <<" ">> \o LiteralForm(<<"B">>)
BothResolved ==
    Resolved(<<"A">>) /\ Resolved(<<"B">>) /\ HasNoPlaceholder(ValueOf(<<"A">>))

\* C16 as claimed: the string pass does not run where the literal pass changed
\* the text, so "$((A)) $(B)" keeps its $(B)
C16_Original ==
    \A pair \in ChildPairs :
        (BothResolved /\ pair[1] = String(LiteralThenString))
            => pair[2] = String(ValueOf(<<"A">>) \o <<" ">> \o StringForm(<<"B">>))

\* C16 (amended): the literal pattern is applied first and the string pattern
\* is then applied to the text the literal pass left, whether it changed it or
\* not; in a node with a placeholder of each form, both resolved to values
\* without placeholder text, both are substituted and the node is a string.
C16_PassOrdering ==
    \A pair \in ChildPairs :
        (BothResolved /\ pair[1] \in {String(LiteralThenString), String(StringThenLiteral)})
            => pair[2] = String(ValueOf(<<"A">>) \o <<" ">> \o ValueOf(<<"B">>))

\* C16 witness: A is mongo and B is b; the node "$((A)) $(B)" of a mapping has
\* become the string "mongo b".
C16_Witness ==
    /\ pc = "Encode"
    /\ BothResolved
    /\ Field(InputObjects[i], <<"f">>) = Some(String(LiteralThenString))
    /\ Field(objects[i], <<"f">>) = Some(String(<<"m", "o", "n", "g", "o", " ", "b">>))

\* C17: when A resolves to the text "$(B)" and B is declared with a value, the
\* node "$(A)" and the node "$((A))" both become the text "$(B)": what was
\* inserted for a placeholder is not read for placeholders again.
C17_SinglePass ==
    \A pair \in ChildPairs :
        (/\ Resolved(<<"A">>) /\ Resolved(<<"B">>)
         /\ ValueOf(<<"A">>) = StringForm(<<"B">>)
         /\ pair[1] \in {String(StringForm(<<"A">>)), String(LiteralForm(<<"A">>))})
            => pair[2] = String(StringForm(<<"B">>))

\* C18: process() of a template with an empty objects sequence and no secret
\* set ends with Ok and an empty text; it does not panic on the computation
\* of objects.len() - 1.
C18_EmptyObjects ==
    (/\ HasTemplate /\ HasSequences /\ Len(InputObjects) = 0
     /\ secrets = None /\ pc \notin {"Loop", "Encode"})
        => pc = "Processed" /\ result = Some(Ok(<< >>))

====
